---- MODULE Spec2Model ----
(***************************************************************************)
(* Model of the registration / freeze-once engine of rimecraft:            *)
(*   util::Freezer<I, M>        (src/src/util/mod.rs)                      *)
(*   registry::Builder<T>, Registry<T>, RegistryKey<T>, Holder<T>          *)
(*                              (src/src/registry/mod.rs)                  *)
(* One Freezer<Registry<T>, Builder<T>> is shared by a set of threads.     *)
(* Raw ids are 0-based as in the code; TLA+ sequences are 1-based, so the  *)
(* entry with raw id i is entries[i + 1].                                  *)
(***************************************************************************)
EXTENDS Integers, Sequences, FiniteSets, TLC

\* ---------------------------------------------------------------- bounds
NumThreads == 2
MaxEntries == 3
NumIdent == 2
NumValues == 2
NumTags == 2

Threads == 1..NumThreads
\* Identifier values (derived structural equality): abstract, 1..NumIdent.
Identifier == 1..NumIdent
\* Names of the registered values of type T.
ValueNames == 1..NumValues

\* ---------------------------------------------------------------- Option
None == [tag |-> "None"]
Some(x) == [tag |-> "Some", val |-> x]
IsSome(o) == o.tag = "Some"
IsNone(o) == o.tag = "None"

NoThread == 0

\* ------------------------------------------------------- hashbrown::HashMap
\* A map is a function whose DOMAIN is its key set.
HashMap_new == << >>
HashMap_insert(map, k, v) ==
    [x \in (DOMAIN map) \cup {k} |-> IF x = k THEN v ELSE map[x]]
HashMap_contains_key(map, k) == k \in DOMAIN map
HashMap_get(map, k) == IF k \in DOMAIN map THEN Some(map[k]) ELSE None

\* faulty variant: the index is taken as 1-based
Vec_get_oneBased(vec, i) == IF i \in 1..Len(vec) THEN Some(vec[i]) ELSE None

\* Vec::get with a 0-based index
Vec_get(vec, i) == IF i \in 0..(Len(vec) - 1) THEN Some(vec[i + 1]) ELSE None

\* ---------------------------------------------------------------- RegistryKey
\* inner: Arc<(Identifier, Identifier)>, "(reg, value)"; inner.0 is [1].
root_key == 0
RegistryKey_of_reg(reg) == <<root_key, reg>>
RegistryKey_new(registry, value) == <<registry[2], value>>
RegistryKey_value(key) == key[1]
RegistryKey_reg(key) == key[2]
\* faulty variant: the value component is compared
RegistryKey_is_of_valueField(key, reg) == key[2] = reg[2]

RegistryKey_is_of(key, reg) == key[1] = reg[2]

\* RegistryKey::cast: a key over the same Arc'ed pair, or nothing
RegistryKey_cast(key, reg) ==
    IF RegistryKey_is_of(key, reg) THEN [tag |-> "Some", val |-> key]
    ELSE [tag |-> "None"]

\* ---------------------------------------------------------------- Registration
\* A value of a type T: Registration: a payload that tells values apart and
\* the raw id it stores, as Item(usize) does; Item::new() starts it at 0.
NewValue(name) == [name |-> name, raw_id |-> 0]
accept(value, id) == [value EXCEPT !.raw_id = id]

\* ---------------------------------------------------------------- Builder
\* entries: Vec<(T, Identifier)>
Builder_new == [entries |-> << >>]

\* faulty variant: only the newest entry is compared
HasId_lastOnly(entries, id) ==
    Len(entries) > 0 /\ entries[Len(entries)][2] = id

\* register, line 162: self.entries.iter().any(|e| e.1 == id)
HasId(entries, id) == \E i \in 1..Len(entries) : entries[i][2] = id

\* faulty variant: the pair is pushed before the duplicate check
Builder_register_pushFirst(b, value, id) ==
    IF HasId(b.entries, id)
    THEN [builder |-> [entries |-> Append(b.entries, <<value, id>>)],
          ret |-> [tag |-> "Err", val |-> id]]
    ELSE [builder |-> [entries |-> Append(b.entries, <<value, id>>)],
          ret |-> [tag |-> "Ok", val |-> Len(b.entries)]]

\* faulty variant: the length after the push is returned
Builder_register_lenAfter(b, value, id) ==
    IF HasId(b.entries, id)
    THEN [builder |-> b, ret |-> [tag |-> "Err", val |-> id]]
    ELSE [builder |-> [entries |-> Append(b.entries, <<value, id>>)],
          ret |-> [tag |-> "Ok", val |-> Len(b.entries) + 1]]

\* Builder::register: the builder after the call and the returned Result.
Builder_register(b, value, id) ==
    IF HasId(b.entries, id)
    THEN [builder |-> b, ret |-> [tag |-> "Err", val |-> id]]
    ELSE [builder |-> [entries |-> Append(b.entries, <<value, id>>)],
          ret |-> [tag |-> "Ok", val |-> Len(b.entries)]]

\* ---------------------------------------------------------------- Freeze::build
\* faulty variant: accept is given the 1-based position
BuildHolders_oneBased(b, opts) ==
    [i \in 1..Len(b.entries) |->
        [key |-> RegistryKey_new(opts[1], b.entries[i][2]),
         value |-> accept(b.entries[i][1], i)]]

\* The Holders made by the enumerate().map(..) of build, in raw-id order.
BuildHolders(b, opts) ==
    [i \in 1..Len(b.entries) |->
        [key |-> RegistryKey_new(opts[1], b.entries[i][2]),
         value |-> accept(b.entries[i][1], i - 1)]]

\* The accept calls made by build, in the order they are made.
BuildAccepts(b) ==
    [i \in 1..Len(b.entries) |-> <<b.entries[i][1].name, i - 1>>]

\* faulty variant: the 1-based position is stored as the raw id
RECURSIVE BuildIdMap_oneBased(_, _, _)
BuildIdMap_oneBased(map, entries, i) ==
    IF i > Len(entries) THEN map
    ELSE BuildIdMap_oneBased(HashMap_insert(map, RegistryKey_value(entries[i].key), i),
                             entries, i + 1)

RECURSIVE BuildIdMap(_, _, _)
BuildIdMap(map, entries, i) ==
    IF i > Len(entries) THEN map
    ELSE BuildIdMap(HashMap_insert(map, RegistryKey_value(entries[i].key), i - 1),
                    entries, i + 1)

\* faulty variant: the 1-based position is stored as the raw id
RECURSIVE BuildKeyMap_oneBased(_, _, _)
BuildKeyMap_oneBased(map, entries, i) ==
    IF i > Len(entries) THEN map
    ELSE BuildKeyMap_oneBased(HashMap_insert(map, entries[i].key, i), entries, i + 1)

RECURSIVE BuildKeyMap(_, _, _)
BuildKeyMap(map, entries, i) ==
    IF i > Len(entries) THEN map
    ELSE BuildKeyMap(HashMap_insert(map, entries[i].key, i - 1), entries, i + 1)

\* faulty variant: a Holder is made with a tag already in its list
Holder_tags_new_preset == <<1>>

\* Holder construction in build: tags: RwLock::new(Vec::new())
Holder_tags_new == << >>

\* opts = <<RegistryKey<Registry<T>>, Option<Identifier>>>
\* The Registry (frozen fields) and the initial contents of its RwLock cells.
Builder_build(b, opts) ==
    LET entries == BuildHolders(b, opts)
        id_map == BuildIdMap(HashMap_new, entries, 1)
    IN [reg |-> [default |-> IF IsSome(opts[2])
                             THEN HashMap_get(id_map, opts[2].val)
                             ELSE None,
                 key_map |-> BuildKeyMap(HashMap_new, entries, 1),
                 entries |-> entries,
                 id_map |-> id_map,
                 key |-> opts[1]],
        tags |-> HashMap_new,
        holder_tags |-> [i \in 1..Len(entries) |-> Holder_tags_new]]

\* ---------------------------------------------------------------- Registry
Registry_contains_id(r, id) == HashMap_contains_key(r.id_map, id)
Registry_get_from_raw(r, raw_id) == Vec_get(r.entries, raw_id)
\* Option::unwrap
Unwrap(o) == IF IsSome(o) THEN o.val ELSE [tag |-> "panic"]
\* id_map.get(id).map(|e| (*e, self.entries.get(*e).unwrap()))
Registry_get_from_id(r, id) ==
    IF HashMap_contains_key(r.id_map, id)
    THEN Some(<<r.id_map[id], Unwrap(Vec_get(r.entries, r.id_map[id]))>>)
    ELSE None
Registry_is_defaulted(r) == IsSome(r.default)
\* Registry::iter: the slice iterator yields the entries front to back
Registry_iter(r) == r.entries
Registry_contains_ket(r, key) == HashMap_contains_key(r.key_map, key)
\* key_map.get(key).map(|e| (*e, self.entries.get(*e).unwrap()))
Registry_get_from_key(r, key) ==
    IF HashMap_contains_key(r.key_map, key)
    THEN Some(<<r.key_map[key], Unwrap(Vec_get(r.entries, r.key_map[key]))>>)
    ELSE None

\* faulty variant: a registry without default falls back to entry 0
Registry_default_entry_orFirst(r) ==
    LET def == IF IsSome(r.default) THEN r.default.val ELSE 0
    IN [tag |-> "entry", val |-> <<def, Unwrap(Registry_get_from_raw(r, def))>>]

\* Registry::default_entry: expect(..) panics when there is no default
Registry_default_entry(r) ==
    IF IsSome(r.default)
    THEN [tag |-> "entry",
          val |-> <<r.default.val, Unwrap(Registry_get_from_raw(r, r.default.val))>>]
    ELSE [tag |-> "panic"]

\* ---------------------------------------------------------------- state
VARIABLES
    immutable,    \* Freezer.immutable: OnceCell<I>, None until set
    mutable,      \* Freezer.mutable: the Option<M> inside the Mutex
    lock,         \* the thread holding Freezer.mutable's Mutex, or NoThread
    tags,         \* Registry.tags: contents of the RwLock cell
    holder_tags,  \* Holder.tags of each entry: contents of the RwLock cells
    pc,           \* position of each thread inside freeze
    seed,         \* the M taken out of the slot by each thread
    built,        \* the I built by each thread, not yet published
    acceptLog,    \* history: the Registration::accept calls made so far
    buildCount,   \* history: number of completed Freeze::build runs
    firstBuilt,   \* history: result of the first Freeze::build run
    taken,        \* history: the slot's content at the last successful take
    buildArgs,    \* history: the seed and opts of the last Freeze::build run
    okLog,        \* history: the register calls that returned Ok, in order
    tagsLock,     \* the thread holding the write lock of Registry.tags
    tagsCommitted, \* history: Registry.tags when its write lock was last free
    slotLog,      \* history: the contents given to the slot, by new first
    panicked,     \* history: whether a Freeze::build run has panicked
    call,         \* a call of a pure function: its inputs and its result
    last          \* history: the most recent call step and its outcome

vars == <<immutable, mutable, lock, tags, holder_tags, pc, seed, built,
          acceptLog, buildCount, firstBuilt, taken, buildArgs, okLog,
          tagsLock, tagsCommitted, slotLog, panicked, call, last>>

\* faulty variant: sealed is decided by the slot being empty
is_freezed_slotEmpty == IsNone(mutable)

\* Freezer::is_freezed
is_freezed == IsSome(immutable)

Step(op, t, arg, ret) == [op |-> op, t |-> t, arg |-> arg, ret |-> ret]
Unit == [tag |-> "unit"]
Panic == [tag |-> "panic"]
\* what a read of the uninitialized cell hands out when it does not trap
Uninit == [tag |-> "uninit"]

\* no pure function is being called
NoCall == [fn |-> "none", args |-> Unit, ret |-> Unit]

AllOpts ==
    {<<RegistryKey_of_reg(r), d>> :
        r \in Identifier, d \in {None} \cup {Some(i) : i \in Identifier}}

\* Freezer::new(Builder::new())
InitFreezer ==
    /\ immutable = None
    /\ mutable = Some(Builder_new)
    /\ lock = NoThread
    /\ tags = None
    /\ holder_tags = None
    /\ pc = [t \in Threads |-> "idle"]
    /\ seed = [t \in Threads |-> None]
    /\ built = [t \in Threads |-> None]
    /\ acceptLog = << >>
    /\ buildCount = 0
    /\ firstBuilt = None
    /\ taken = None
    /\ buildArgs = None
    /\ okLog = << >>
    /\ tagsLock = NoThread
    /\ tagsCommitted = None
    /\ slotLog = <<Builder_new>>
    /\ panicked = FALSE
    /\ last = Step("new", NoThread, Unit, Unit)

Init ==
    /\ InitFreezer
    /\ call = NoCall

\* ---------------------------------------------------------------- Freezer
\* faulty variant: the assertion is compiled out
AssertHolds_skip == TRUE

\* freeze, line 204: the condition of assert!(!self.is_freezed())
AssertHolds == ~is_freezed

\* freeze, line 204: assert!(!self.is_freezed())
\* The opts argument is moved into build and read nowhere before it, so the
\* model draws it in FreezeBuild, where it is first read.
FreezeAssert(t) ==
    /\ pc[t] = "idle"
    /\ IF AssertHolds
       THEN /\ last' = Step("freeze.assert", t, Unit, Unit)
            /\ pc' = [pc EXCEPT ![t] = "freeze_take"]
       ELSE /\ last' = Step("freeze.assert", t, Unit, Panic)
            /\ UNCHANGED pc
    /\ UNCHANGED <<immutable, mutable, lock, tags, holder_tags, seed, built,
                   acceptLog, buildCount, firstBuilt, taken, buildArgs, okLog>>
    /\ UNCHANGED <<tagsLock, tagsCommitted, slotLog, panicked, call>>

\* faulty variant: the seed is read (cloned) out of the slot instead of taken
TakeLeaves_keep(slot) == slot

\* What self.mutable.lock().take() leaves in the slot.
TakeLeaves(slot) == None

\* faulty variant: the guard is dropped as soon as take has returned
GuardAfterTake_dropped(t) == NoThread

\* The holder of the Mutex once take has returned: the MutexGuard is a
\* temporary of freeze's statement, so the taking thread keeps it.
GuardAfterTake(t) == t

\* freeze, line 207: self.mutable.lock().take().unwrap()
\* The guard is a temporary of the statement: it is held until freeze's
\* statement ends, and released while unwinding when unwrap panics.
FreezeTake(t) ==
    /\ pc[t] = "freeze_take"
    /\ lock = NoThread
    /\ IF IsSome(mutable)
       THEN /\ seed' = [seed EXCEPT ![t] = mutable]
            /\ mutable' = TakeLeaves(mutable)
            /\ lock' = GuardAfterTake(t)
            /\ pc' = [pc EXCEPT ![t] = "freeze_build"]
            /\ taken' = mutable
            /\ last' = Step("freeze.take", t, Unit, Unit)
       ELSE /\ pc' = [pc EXCEPT ![t] = "idle"]
            /\ last' = Step("freeze.take", t, Unit, Panic)
            /\ UNCHANGED <<seed, mutable, lock, taken>>
    /\ UNCHANGED <<immutable, tags, holder_tags, built, acceptLog, buildCount,
                   firstBuilt, buildArgs, okLog>>
    /\ UNCHANGED <<tagsLock, tagsCommitted, slotLog, panicked, call>>

\* freeze, line 207: .build(opts), Freeze::build for Builder<T>
FreezeBuild(t, o) ==
    /\ pc[t] = "freeze_build"
    /\ LET i == Builder_build(seed[t].val, o)
       IN /\ built' = [built EXCEPT ![t] = Some(i)]
          /\ firstBuilt' = IF IsNone(firstBuilt) THEN Some(i) ELSE firstBuilt
    /\ buildArgs' = Some(<<seed[t].val, o>>)
    /\ seed' = [seed EXCEPT ![t] = None]
    /\ acceptLog' = acceptLog \o BuildAccepts(seed[t].val)
    /\ buildCount' = buildCount + 1
    /\ pc' = [pc EXCEPT ![t] = "freeze_set"]
    /\ last' = Step("freeze.build", t, o, Unit)
    /\ UNCHANGED <<immutable, mutable, lock, tags, holder_tags, taken, okLog>>
    /\ UNCHANGED <<tagsLock, tagsCommitted, slotLog, panicked, call>>

\* OnceCell::set stores the value only when the cell is empty.
OnceCell_set_stores(cell) == IsNone(cell)

\* freeze, lines 205-207: let _ = self.immutable.set(..)
FreezeSet(t) ==
    /\ pc[t] = "freeze_set"
    /\ IF OnceCell_set_stores(immutable)
       THEN /\ immutable' = Some(built[t].val.reg)
            /\ tags' = Some(built[t].val.tags)
            /\ holder_tags' = Some(built[t].val.holder_tags)
            /\ tagsCommitted' = Some(built[t].val.tags)
            /\ last' = Step("freeze.set", t, Unit, [tag |-> "Ok"])
       ELSE /\ UNCHANGED <<immutable, tags, holder_tags, tagsCommitted>>
            /\ last' = Step("freeze.set", t, Unit, [tag |-> "Err"])
    /\ built' = [built EXCEPT ![t] = None]
    /\ pc' = [pc EXCEPT ![t] = "freeze_unlock"]
    /\ UNCHANGED <<mutable, lock, seed, acceptLog, buildCount, firstBuilt,
                   taken, buildArgs, okLog>>
    /\ UNCHANGED <<tagsLock, slotLog, panicked, call>>

\* freeze, line 207: the statement ends, the MutexGuard temporary is dropped
FreezeUnlock(t) ==
    /\ pc[t] = "freeze_unlock"
    /\ lock' = NoThread
    /\ pc' = [pc EXCEPT ![t] = "idle"]
    /\ last' = Step("freeze.return", t, Unit, Unit)
    /\ UNCHANGED <<immutable, mutable, tags, holder_tags, seed, built,
                   acceptLog, buildCount, firstBuilt, taken, buildArgs, okLog>>
    /\ UNCHANGED <<tagsLock, tagsCommitted, slotLog, panicked, call>>

\* Freezer::is_freezed called by a thread
IsFreezed(t) ==
    /\ pc[t] = "idle"
    /\ last' = Step("is_freezed", t, Unit, [tag |-> "bool", val |-> is_freezed])
    /\ UNCHANGED <<immutable, mutable, lock, tags, holder_tags, pc, seed,
                   built, acceptLog, buildCount, firstBuilt, taken, buildArgs, okLog>>
    /\ UNCHANGED <<tagsLock, tagsCommitted, slotLog, panicked, call>>

\* Outcomes of OnceCell::get_unchecked. On an initialized cell it is the
\* stored value. On an empty cell it is undefined behaviour: a build with
\* debug assertions traps, any other build hands out whatever the cell holds.
GetUnchecked(cell) ==
    IF IsSome(cell)
    THEN {[tag |-> "ref", val |-> cell.val]}
    ELSE {Panic, Uninit}

\* impl Deref for Freezer: unsafe { self.immutable.get_unchecked() }
Deref(t) ==
    /\ pc[t] = "idle"
    /\ \E r \in GetUnchecked(immutable) :
          last' = Step("deref", t, [tag |-> "bool", val |-> is_freezed], r)
    /\ UNCHANGED <<immutable, mutable, lock, tags, holder_tags, pc, seed,
                   built, acceptLog, buildCount, firstBuilt, taken, buildArgs, okLog>>
    /\ UNCHANGED <<tagsLock, tagsCommitted, slotLog, panicked, call>>

\* A caller registers through the public slot:
\* freezer.mutable.lock() and, when the slot holds a Builder, register on it.
Register(t, name, id) ==
    /\ pc[t] = "idle"
    /\ lock = NoThread
    /\ IF IsSome(mutable)
       THEN /\ \/ Len(mutable.val.entries) < MaxEntries
               \/ HasId(mutable.val.entries, id)
            /\ LET r == Builder_register(mutable.val, NewValue(name), id)
               IN /\ mutable' = Some(r.builder)
                  /\ okLog' = IF r.ret.tag = "Ok"
                              THEN Append(okLog, [name |-> name, id |-> id,
                                                  raw |-> r.ret.val])
                              ELSE okLog
                  /\ last' = Step("register", t, <<name, id>>, r.ret)
       ELSE /\ UNCHANGED <<mutable, okLog>>
            /\ last' = Step("register", t, <<name, id>>, [tag |-> "NoBuilder"])
    /\ UNCHANGED <<immutable, lock, tags, holder_tags, pc, seed, built,
                   acceptLog, buildCount, firstBuilt, taken, buildArgs>>
    /\ UNCHANGED <<tagsLock, tagsCommitted, slotLog, panicked, call>>

\* Registry::default_entry called on the Registry in the Freezer's cell
\* (a &Registry exists only once the cell is set)
DefaultEntry(t) ==
    /\ pc[t] = "idle"
    /\ IsSome(immutable)
    /\ last' = Step("default_entry", t,
                    [tag |-> "bool", val |-> Registry_is_defaulted(immutable.val)],
                    Registry_default_entry(immutable.val))
    /\ UNCHANGED <<immutable, mutable, lock, tags, holder_tags, pc, seed,
                   built, acceptLog, buildCount, firstBuilt, taken, buildArgs, okLog>>
    /\ UNCHANGED <<tagsLock, tagsCommitted, slotLog, panicked, call>>

Next ==
    \/ \E t \in Threads : FreezeAssert(t)
    \/ \E t \in Threads : FreezeTake(t)
    \/ \E t \in Threads, o \in AllOpts : FreezeBuild(t, o)
    \/ \E t \in Threads : FreezeSet(t)
    \/ \E t \in Threads : FreezeUnlock(t)
    \/ \E t \in Threads : IsFreezed(t)
    \/ \E t \in Threads : Deref(t)
    \/ \E t \in Threads, name \in ValueNames, id \in Identifier : Register(t, name, id)
    \/ \E t \in Threads : DefaultEntry(t)

Spec == Init /\ [][Next]_vars

\* ---------------------------------------------------------------- tags
\* TagKey<T> values, and the contents a writer puts into the two kinds of
\* tag cell: raw-id lists in Registry.tags, TagKey lists in Holder.tags.
TagKeys == 1..NumTags
TagRawLists == {<< >>, <<0>>}
TagKeyLists == {<< >>} \cup {<<g>> : g \in TagKeys}

ReadersOfTags == {t \in Threads : pc[t] = "tags_read"}

\* faulty variant: a read of the cell does not wait for the writer
RwLock_can_read_unguarded == TRUE

\* parking_lot::RwLock of Registry.tags: read() is granted when no writer
\* holds the lock, write() when nobody holds it.
RwLock_can_read == tagsLock = NoThread
RwLock_can_write == tagsLock = NoThread /\ ReadersOfTags = {}

tagFrame ==
    <<immutable, mutable, lock, seed, built, acceptLog, buildCount, firstBuilt,
      taken, buildArgs, okLog, slotLog, panicked, call>>

\* A writer starts an update of Registry.tags: registry.tags.write()
TagsWriteLock(t) ==
    /\ pc[t] = "idle"
    /\ IsSome(immutable)
    /\ RwLock_can_write
    /\ tagsLock' = t
    /\ pc' = [pc EXCEPT ![t] = "tags_write"]
    /\ last' = Step("tags.write", t, Unit, Unit)
    /\ UNCHANGED <<tags, holder_tags, tagsCommitted>>
    /\ UNCHANGED tagFrame

\* One change of the update, made through the write guard: insert(tag, ids)
TagsInsert(t, g, ids) ==
    /\ pc[t] = "tags_write"
    /\ tags' = Some(HashMap_insert(tags.val, g, ids))
    /\ last' = Step("tags.insert", t, <<g, ids>>, Unit)
    /\ UNCHANGED <<holder_tags, tagsLock, tagsCommitted, pc>>
    /\ UNCHANGED tagFrame

\* The update is complete: the write guard is dropped
TagsWriteUnlock(t) ==
    /\ pc[t] = "tags_write"
    /\ tagsLock' = NoThread
    /\ tagsCommitted' = tags
    /\ pc' = [pc EXCEPT ![t] = "idle"]
    /\ last' = Step("tags.commit", t, Unit, Unit)
    /\ UNCHANGED <<tags, holder_tags>>
    /\ UNCHANGED tagFrame

\* A reader takes registry.tags.read() and looks at the map
TagsReadLock(t) ==
    /\ pc[t] = "idle"
    /\ IsSome(immutable)
    /\ RwLock_can_read
    /\ pc' = [pc EXCEPT ![t] = "tags_read"]
    /\ last' = Step("tags.read", t, Unit, tags)
    /\ UNCHANGED <<tags, holder_tags, tagsLock, tagsCommitted>>
    /\ UNCHANGED tagFrame

\* The reader looks at the map again and drops its read guard
TagsReadUnlock(t) ==
    /\ pc[t] = "tags_read"
    /\ pc' = [pc EXCEPT ![t] = "idle"]
    /\ last' = Step("tags.read", t, Unit, tags)
    /\ UNCHANGED <<tags, holder_tags, tagsLock, tagsCommitted>>
    /\ UNCHANGED tagFrame

\* The tag list of the Holder at raw id i is replaced: *holder.tags.write() = ..
HolderTagsWrite(t, i, list) ==
    /\ pc[t] = "idle"
    /\ IsSome(immutable)
    /\ IsSome(Registry_get_from_raw(immutable.val, i))
    /\ holder_tags' = Some([holder_tags.val EXCEPT ![i + 1] = list])
    /\ last' = Step("holder.tags.write", t, <<i, list>>, Unit)
    /\ UNCHANGED <<tags, tagsLock, tagsCommitted, pc>>
    /\ UNCHANGED tagFrame

\* faulty variant: the Registry's tag-to-raw-id map is consulted
Holder_is_in_viaRegistry(i, tag) ==
    /\ HashMap_contains_key(tags.val, tag)
    /\ \E j \in 1..Len(tags.val[tag]) : tags.val[tag][j] = i

\* Holder::is_in on the Holder at raw id i: self.tags.read().contains(tag)
Holder_is_in(i, tag) ==
    \E j \in 1..Len(holder_tags.val[i + 1]) : holder_tags.val[i + 1][j] = tag

\* get_from_raw(i).unwrap().is_in(&tag)
HolderIsIn(t, i, g) ==
    /\ pc[t] = "idle"
    /\ IsSome(immutable)
    /\ IsSome(Registry_get_from_raw(immutable.val, i))
    /\ last' = Step("holder.is_in", t, <<i, g>>,
                    [tag |-> "bool", val |-> Holder_is_in(i, g)])
    /\ UNCHANGED <<tags, holder_tags, tagsLock, tagsCommitted, pc>>
    /\ UNCHANGED tagFrame

\* The Freezer of one registry key, filled with one kind of value, together
\* with the tag updates and reads made on the sealed Registry.
TagsOpts == <<RegistryKey_of_reg(1), [tag |-> "None"]>>

NextTags ==
    \/ \E t \in Threads : FreezeAssert(t)
    \/ \E t \in Threads : FreezeTake(t)
    \/ \E t \in Threads : FreezeBuild(t, TagsOpts)
    \/ \E t \in Threads : FreezeSet(t)
    \/ \E t \in Threads : FreezeUnlock(t)
    \/ \E t \in Threads, id \in Identifier : Register(t, 1, id)
    \/ \E t \in Threads : DefaultEntry(t)
    \/ \E t \in Threads : TagsWriteLock(t)
    \/ \E t \in Threads, g \in TagKeys, ids \in TagRawLists : TagsInsert(t, g, ids)
    \/ \E t \in Threads : TagsWriteUnlock(t)
    \/ \E t \in Threads : TagsReadLock(t)
    \/ \E t \in Threads : TagsReadUnlock(t)
    \/ \E t \in Threads, i \in 0..(MaxEntries - 1), list \in TagKeyLists :
          HolderTagsWrite(t, i, list)
    \/ \E t \in Threads, i \in 0..(MaxEntries - 1), g \in TagKeys :
          HolderIsIn(t, i, g)

SpecTags == Init /\ [][NextTags]_vars

\* ------------------------------------------------- RegistryKey, called alone
\* Identifier values a key component can hold: the pool and the root key.
IdentAll == Identifier \cup {root_key}
KeyInputs == IdentAll \X IdentAll
RegInputs == {RegistryKey_of_reg(x) : x \in IdentAll}

freezerVars ==
    <<immutable, mutable, lock, tags, holder_tags, pc, seed, built, acceptLog,
      buildCount, firstBuilt, taken, buildArgs, okLog, tagsLock, tagsCommitted,
      slotLog, panicked, last>>

\* std::sync::Arc: a handle is the address of its allocation and the value
\* stored there. Arc::new allocates, Arc::clone copies the handle.
Arc_new(ptr, v) == [ptr |-> ptr, val |-> v]
Arc_clone(a) == a

\* faulty variant: handles compared by address, as util::Ref compares
Arc_eq_byAddress(a, b) == a.ptr = b.ptr

\* Arc<T>'s PartialEq compares the stored values
Arc_eq(a, b) == a.val = b.val

\* Arc<T>'s Hash feeds the stored value to the hasher
Arc_hash(a) == a.val

\* impl Clone / PartialEq / Hash for RegistryKey, on the Arc handle `inner`
RegistryKey_clone(k) == Arc_clone(k)
RegistryKey_eq(a, b) == Arc_eq(a, b)
RegistryKey_hash(k) == Arc_hash(k)

\* The inputs of one call: a key, two registry keys and two value identifiers.
InitKey ==
    /\ InitFreezer
    /\ \E k \in KeyInputs, r \in RegInputs, r2 \in RegInputs,
          v \in Identifier, v2 \in Identifier :
          call = [fn |-> "none",
                  args |-> [key |-> k, reg |-> r, reg2 |-> r2,
                            value |-> v, value2 |-> v2],
                  ret |-> Unit]

\* key.cast(reg)
CallCast ==
    /\ call.fn = "none"
    /\ call' = [call EXCEPT !.fn = "cast",
                            !.ret = RegistryKey_cast(call.args.key, call.args.reg)]
    /\ UNCHANGED freezerVars

\* RegistryKey::new(reg, value), then is_of(reg) and is_of(reg2)
CallNewIsOf ==
    /\ call.fn = "none"
    /\ LET k == RegistryKey_new(call.args.reg, call.args.value)
       IN call' = [call EXCEPT !.fn = "new.is_of",
                               !.ret = [key |-> k,
                                        own |-> RegistryKey_is_of(k, call.args.reg),
                                        other |-> RegistryKey_is_of(k, call.args.reg2)]]
    /\ UNCHANGED freezerVars

\* a = RegistryKey::new(reg, value), b = RegistryKey::new(reg2, value2) in
\* two allocations, c = a.clone(); then a == b, c == a and the hasher inputs
CallNewEq ==
    /\ call.fn = "none"
    /\ LET a == Arc_new(1, RegistryKey_new(call.args.reg, call.args.value))
           b == Arc_new(2, RegistryKey_new(call.args.reg2, call.args.value2))
           c == RegistryKey_clone(a)
       IN call' = [call EXCEPT !.fn = "new.eq",
                               !.ret = [a |-> a, b |-> b, c |-> c,
                                        eq |-> RegistryKey_eq(a, b),
                                        clone_eq |-> RegistryKey_eq(c, a),
                                        hash_a |-> RegistryKey_hash(a),
                                        hash_b |-> RegistryKey_hash(b),
                                        hash_c |-> RegistryKey_hash(c)]]
    /\ UNCHANGED freezerVars

NextKey == CallCast \/ CallNewIsOf \/ CallNewEq

SpecKey == InitKey /\ [][NextKey]_vars

\* ------------------------------------------------- Identifier, called alone
\* A string is the sequence of its characters, a character is its code point.
Char_underscore == 95
Char_minus == 45
Char_dot == 46
Char_slash == 47
Char_colon == 58
Char_0 == 48
Char_9 == 57
Char_a == 97
Char_z == 122
\* an upper-case letter
Char_N == 78
\* "rimecraft"
Str_rimecraft == <<114, 105, 109, 101, 99, 114, 97, 102, 116>>

\* anyhow::Result
Ok(x) == [tag |-> "Ok", val |-> x]
Err == [tag |-> "Err"]

\* faulty variant: an empty namespace is refused
is_namespace_valid_nonEmpty(namespace) == Len(namespace) > 0

\* for c in namespace.chars() { if !(c == '_' || c == '-' || c >= 'a' ||
\*     c <= 'z' || c >= '0' || c <= '9' || c == '.') { return false; } } true
is_namespace_valid(namespace) ==
    \A i \in 1..Len(namespace) :
        LET c == namespace[i]
        IN \/ c = Char_underscore
           \/ c = Char_minus
           \/ c >= Char_a
           \/ c <= Char_z
           \/ c >= Char_0
           \/ c <= Char_9
           \/ c = Char_dot

\* the same loop with || c == '/'
is_path_valid(path) ==
    \A i \in 1..Len(path) :
        LET c == path[i]
        IN \/ c = Char_underscore
           \/ c = Char_minus
           \/ c >= Char_a
           \/ c <= Char_z
           \/ c >= Char_0
           \/ c <= Char_9
           \/ c = Char_dot
           \/ c = Char_slash

\* faulty variant: the namespace is copied into both fields
Identifier_new_pathFromNamespace(namespace, path) ==
    IF is_namespace_valid(namespace) /\ is_path_valid(path)
    THEN Ok([namespace |-> namespace, path |-> namespace])
    ELSE Err

\* Identifier::new
Identifier_new(namespace, path) ==
    IF is_namespace_valid(namespace) /\ is_path_valid(path)
    THEN Ok([namespace |-> namespace, path |-> path])
    ELSE Err

Identifier_namespace(id) == id.namespace
Identifier_path(id) == id.path

\* faulty variant: the separator is left out
Identifier_fmt_noSeparator(id) == id.namespace \o id.path

\* impl Display: namespace, ":", path
Identifier_fmt(id) == id.namespace \o <<Char_colon>> \o id.path

\* faulty variant: splits at the last occurrence, as str::rsplit_once
str_split_once_last(s, delimiter) ==
    IF \E i \in 1..Len(s) : s[i] = delimiter
    THEN LET i == CHOOSE j \in 1..Len(s) :
                    /\ s[j] = delimiter
                    /\ \A k \in (j + 1)..Len(s) : s[k] # delimiter
         IN Some(<<SubSeq(s, 1, i - 1), SubSeq(s, i + 1, Len(s))>>)
    ELSE None

\* str::split_once: the parts before and after the first occurrence
str_split_once(s, delimiter) ==
    IF \E i \in 1..Len(s) : s[i] = delimiter
    THEN LET i == CHOOSE j \in 1..Len(s) :
                    /\ s[j] = delimiter
                    /\ \A k \in 1..(j - 1) : s[k] # delimiter
         IN Some(<<SubSeq(s, 1, i - 1), SubSeq(s, i + 1, Len(s))>>)
    ELSE None

\* Identifier::split_on
Identifier_split_on(id, delimiter) ==
    LET arr == str_split_once(id, delimiter)
    IN IF IsSome(arr)
       THEN Identifier_new(arr.val[1], arr.val[2])
       ELSE Identifier_new(Str_rimecraft, id)

\* Identifier::try_parse
Identifier_try_parse(id) == Identifier_split_on(id, Char_colon)

\* Identifier::parse: try_parse(id).unwrap()
Identifier_parse(id) ==
    LET r == Identifier_try_parse(id)
    IN IF r.tag = "Ok" THEN [tag |-> "value", val |-> r.val] ELSE Panic

\* Inputs: components of up to MaxStrLen characters and texts of up to
\* MaxTextLen characters over a valid letter, '-', '/', ':' and an
\* upper-case letter.
MaxStrLen == 2
MaxTextLen == 3
Chars == {Char_a, Char_minus, Char_slash, Char_colon, Char_N}
Strs(n) == UNION {[1..k -> Chars] : k \in 0..n}

InitId ==
    /\ InitFreezer
    /\ \/ \E ns \in Strs(MaxStrLen), p \in Strs(MaxStrLen) :
             call = [fn |-> "none",
                     args |-> [namespace |-> ns, path |-> p, id |-> << >>],
                     ret |-> Unit]
       \/ \E text \in Strs(MaxTextLen) :
             call = [fn |-> "none",
                     args |-> [namespace |-> << >>, path |-> << >>, id |-> text],
                     ret |-> Unit]

\* Identifier::new(namespace, path)
CallIdNew ==
    /\ call.fn = "none"
    /\ call' = [call EXCEPT !.fn = "id.new",
                            !.ret = Identifier_new(call.args.namespace,
                                                   call.args.path)]
    /\ UNCHANGED freezerVars

\* Identifier::new(namespace, path), then to_string() of the result and
\* try_parse of that text
CallIdRoundTrip ==
    /\ call.fn = "none"
    /\ LET made == Identifier_new(call.args.namespace, call.args.path)
           text == IF made.tag = "Ok" THEN Identifier_fmt(made.val) ELSE << >>
       IN call' = [call EXCEPT !.fn = "id.roundtrip",
                               !.ret = [made |-> made,
                                        text |-> text,
                                        parsed |-> IF made.tag = "Ok"
                                                   THEN Identifier_try_parse(text)
                                                   ELSE Err]]
    /\ UNCHANGED freezerVars

\* Identifier::try_parse(id) and Identifier::parse(id)
CallIdParse ==
    /\ call.fn = "none"
    /\ call' = [call EXCEPT !.fn = "id.parse",
                            !.ret = [try_parse |-> Identifier_try_parse(call.args.id),
                                     parse |-> Identifier_parse(call.args.id)]]
    /\ UNCHANGED freezerVars

NextId == CallIdNew \/ CallIdRoundTrip \/ CallIdParse

SpecId == InitId /\ [][NextId]_vars

\* ------------------------------------------- Freezer<T, T>: identity freeze
\* faulty variant: the build hands on another value than it was given
Freeze_build_self_other(self, opts) == (self % NumValues) + 1

\* impl<T> Freeze<T> for T: fn build(self, _opts: ()) -> T { self }
Freeze_build_self(self, opts) == self

\* direct writes of the slot's content made in one run
MaxSlotWrites == 2

\* Freezer::new(v) for a plain value v
InitSelf ==
    /\ \E v \in ValueNames :
          /\ mutable = Some(v)
          /\ slotLog = <<v>>
          /\ last = Step("new", NoThread, v, Unit)
    /\ immutable = None
    /\ lock = NoThread
    /\ tags = None
    /\ holder_tags = None
    /\ pc = [t \in Threads |-> "idle"]
    /\ seed = [t \in Threads |-> None]
    /\ built = [t \in Threads |-> None]
    /\ acceptLog = << >>
    /\ buildCount = 0
    /\ firstBuilt = None
    /\ taken = None
    /\ buildArgs = None
    /\ okLog = << >>
    /\ tagsLock = NoThread
    /\ tagsCommitted = None
    /\ panicked = FALSE
    /\ call = NoCall

\* A caller replaces the value in the public slot:
\* if let Some(m) = freezer.mutable.lock().as_mut() { *m = v }
SlotSet(t, v) ==
    /\ pc[t] = "idle"
    /\ lock = NoThread
    /\ IsSome(mutable)
    /\ Len(slotLog) <= MaxSlotWrites
    /\ mutable' = Some(v)
    /\ slotLog' = Append(slotLog, v)
    /\ last' = Step("slot.set", t, v, Unit)
    /\ UNCHANGED <<immutable, lock, tags, holder_tags, pc, seed, built,
                   acceptLog, buildCount, firstBuilt, taken, buildArgs, okLog>>
    /\ UNCHANGED <<tagsLock, tagsCommitted, panicked, call>>

\* freeze, line 207: .build(()), the identity build
FreezeBuildSelf(t) ==
    /\ pc[t] = "freeze_build"
    /\ LET i == Freeze_build_self(seed[t].val, Unit)
       IN /\ built' = [built EXCEPT ![t] = Some(i)]
          /\ firstBuilt' = IF IsNone(firstBuilt) THEN Some(i) ELSE firstBuilt
    /\ buildArgs' = Some(<<seed[t].val, Unit>>)
    /\ seed' = [seed EXCEPT ![t] = None]
    /\ buildCount' = buildCount + 1
    /\ pc' = [pc EXCEPT ![t] = "freeze_set"]
    /\ last' = Step("freeze.build", t, Unit, Unit)
    /\ UNCHANGED <<immutable, mutable, lock, tags, holder_tags, acceptLog,
                   taken, okLog>>
    /\ UNCHANGED <<tagsLock, tagsCommitted, slotLog, panicked, call>>

\* freeze, lines 205-207: let _ = self.immutable.set(..) with I = T
FreezeSetSelf(t) ==
    /\ pc[t] = "freeze_set"
    /\ IF OnceCell_set_stores(immutable)
       THEN /\ immutable' = built[t]
            /\ last' = Step("freeze.set", t, Unit, [tag |-> "Ok"])
       ELSE /\ UNCHANGED immutable
            /\ last' = Step("freeze.set", t, Unit, [tag |-> "Err"])
    /\ built' = [built EXCEPT ![t] = None]
    /\ pc' = [pc EXCEPT ![t] = "freeze_unlock"]
    /\ UNCHANGED <<mutable, lock, tags, holder_tags, seed, acceptLog,
                   buildCount, firstBuilt, taken, buildArgs, okLog>>
    /\ UNCHANGED <<tagsLock, tagsCommitted, slotLog, panicked, call>>

NextSelf ==
    \/ \E t \in Threads : FreezeAssert(t)
    \/ \E t \in Threads : FreezeTake(t)
    \/ \E t \in Threads : FreezeBuildSelf(t)
    \/ \E t \in Threads : FreezeSetSelf(t)
    \/ \E t \in Threads : FreezeUnlock(t)
    \/ \E t \in Threads : IsFreezed(t)
    \/ \E t \in Threads : Deref(t)
    \/ \E t \in Threads, v \in ValueNames : SlotSet(t, v)

SpecSelf == InitSelf /\ [][NextSelf]_vars

\* ------------------------------------------------ freeze with a failing build
\* freeze, line 207: .build(opts) panics after k of the accept calls (accept
\* is the caller's code). Unwinding drops the Builder that was moved into
\* build and the MutexGuard temporary (a parking_lot Mutex is not poisoned);
\* immutable.set is never reached.
FreezeBuildPanic(t, k) ==
    /\ pc[t] = "freeze_build"
    /\ k <= Len(seed[t].val.entries)
    /\ acceptLog' = acceptLog \o SubSeq(BuildAccepts(seed[t].val), 1, k)
    /\ seed' = [seed EXCEPT ![t] = None]
    /\ lock' = NoThread
    /\ pc' = [pc EXCEPT ![t] = "idle"]
    /\ panicked' = TRUE
    /\ last' = Step("freeze.build", t, k, Panic)
    /\ UNCHANGED <<immutable, mutable, tags, holder_tags, built, buildCount,
                   firstBuilt, taken, buildArgs, okLog>>
    /\ UNCHANGED <<tagsLock, tagsCommitted, slotLog, call>>

NextPanic ==
    \/ \E t \in Threads : FreezeAssert(t)
    \/ \E t \in Threads : FreezeTake(t)
    \/ \E t \in Threads, o \in AllOpts : FreezeBuild(t, o)
    \/ \E t \in Threads, k \in 0..MaxEntries : FreezeBuildPanic(t, k)
    \/ \E t \in Threads : FreezeSet(t)
    \/ \E t \in Threads : FreezeUnlock(t)
    \/ \E t \in Threads : IsFreezed(t)
    \/ \E t \in Threads, name \in ValueNames, id \in Identifier : Register(t, name, id)

SpecPanic == Init /\ [][NextPanic]_vars

\* ------------------------------------------------- Indexed, called alone
\* T: PartialEq. Two kinds of T are drawn: one whose == compares every
\* field, the accepted raw id included (as the derive of Item does), and one
\* whose == compares the payload only.
EqKinds == {"derive", "payload"}
Value_eq(kind, a, b) ==
    IF kind = "derive" THEN a = b ELSE a.name = b.name

\* A reference: the address it points to and the value found there. The
\* address of element i of a Vec is the Vec's buffer and the offset i.
AddressOf(buf, i) == [buf |-> buf, idx |-> i]
RefTo(addr, val) == [addr |-> addr, val |-> val]

\* get_from_raw, with the address of the &Holder<T> it returns
Registry_get_from_raw_ref(r, raw_id) ==
    IF IsSome(Registry_get_from_raw(r, raw_id))
    THEN Some(RefTo(AddressOf("entries", raw_id), Registry_get_from_raw(r, raw_id).val))
    ELSE None

\* faulty variant: every entry equal to the value is a candidate and the
\* last one wins
Find_last(hits) ==
    IF hits = {} THEN None
    ELSE Some((CHOOSE k \in hits : \A j \in hits : j <= k) - 1)

\* iter().enumerate().find(pred).map(|e| e.0): the first position, 0-based,
\* of the set of positions where pred holds
Find(hits) ==
    IF hits = {} THEN None
    ELSE Some((CHOOSE k \in hits : \A j \in hits : k <= j) - 1)

\* Indexed<T>::get_raw_id: find(|e| &e.1.value == value)
Registry_get_raw_id(r, kind, value) ==
    Find({k \in 1..Len(r.entries) : Value_eq(kind, r.entries[k].value, value)})

\* Indexed<T>::get: get_from_raw(index).map(|e| &e.value)
Registry_get(r, index) ==
    IF IsSome(Registry_get_from_raw(r, index))
    THEN Some(Registry_get_from_raw(r, index).val.value)
    ELSE None

\* Indexed::len
Registry_len(r) == Len(r.entries)

\* Index<usize>: &self.get_from_raw(index).unwrap().value
Registry_index(r, index) ==
    IF IsSome(Registry_get_from_raw(r, index))
    THEN [tag |-> "value", val |-> Registry_get_from_raw(r, index).val.value]
    ELSE Panic

\* faulty variant: Holders are compared by their keys
SameHolder_byKey(r, k, ref) == r.entries[k].key = ref.val.key

\* e.1 as *const Holder<T> as usize == value as *const Holder<T> as usize
SameHolder(r, k, ref) == AddressOf("entries", k - 1) = ref.addr

\* Indexed<Holder<T>>::get_raw_id
Registry_get_raw_id_holder(r, ref) ==
    Find({k \in 1..Len(r.entries) : SameHolder(r, k, ref)})

\* The Builder after a sequence of register calls, failed ones included
RECURSIVE RegisterAll(_, _, _)
RegisterAll(b, regs, i) ==
    IF i > Len(regs) THEN b
    ELSE RegisterAll(Builder_register(b, NewValue(regs[i][1]), regs[i][2]).builder,
                     regs, i + 1)

RegSeqs ==
    UNION {[1..k -> ValueNames \X Identifier] : k \in 0..MaxEntries}

\* Inputs: a Registry built from a sequence of registrations, a raw id, a
\* value, a kind of T and the place of a Holder outside this Registry.
InitIndexed ==
    /\ InitFreezer
    /\ \E regs \in RegSeqs, i \in 0..MaxEntries, name \in ValueNames,
          raw \in 0..(MaxEntries - 1), kind \in EqKinds :
          call = [fn |-> "none",
                  args |-> [reg |-> Builder_build(RegisterAll(Builder_new, regs, 1),
                                                  TagsOpts).reg,
                            index |-> i,
                            value |-> accept(NewValue(name), raw),
                            kind |-> kind],
                  ret |-> Unit]

\* Indexed<Holder<T>>: get_raw_id(get_from_raw(index)), and get_raw_id of a
\* Holder with the same contents that lives in another Registry's Vec
CallGetRawIdHolder ==
    /\ call.fn = "none"
    /\ LET r == call.args.reg
           own == Registry_get_from_raw_ref(r, call.args.index)
       IN call' = [call EXCEPT
                     !.fn = "holder.get_raw_id",
                     !.ret = [own |-> own,
                              id |-> IF IsSome(own)
                                     THEN Registry_get_raw_id_holder(r, own.val)
                                     ELSE None,
                              foreign |->
                                  IF IsSome(own)
                                  THEN Registry_get_raw_id_holder(r,
                                          RefTo(AddressOf("other", call.args.index),
                                              own.val.val))
                                  ELSE None]]
    /\ UNCHANGED freezerVars

\* Indexed<T>: get_raw_id(value), get of the id it returns, and
\* get_raw_id(&registry[index])
CallGetRawId ==
    /\ call.fn = "none"
    /\ LET r == call.args.reg
           id == Registry_get_raw_id(r, call.args.kind, call.args.value)
           at == Registry_index(r, call.args.index)
       IN call' = [call EXCEPT
                     !.fn = "get_raw_id",
                     !.ret = [id |-> id,
                              back |-> IF IsSome(id) THEN Registry_get(r, id.val)
                                       ELSE None,
                              len |-> Registry_len(r),
                              at |-> at,
                              id_at |-> IF at = Panic THEN None
                                        ELSE Registry_get_raw_id(r, call.args.kind,
                                                                 at.val)]]
    /\ UNCHANGED freezerVars

NextIndexed == CallGetRawIdHolder \/ CallGetRawId

SpecIndexed == InitIndexed /\ [][NextIndexed]_vars

TypeOK ==
    /\ lock \in Threads \cup {NoThread}
    /\ \A t \in Threads : pc[t] \in {"idle", "freeze_take", "freeze_build",
                                     "freeze_set", "freeze_unlock",
                                     "tags_write", "tags_read"}

\* ================================================================ claims

\* ---------------------------------------------------------------- C1
\* C1: the open->sealed transition happens at most once. Once sealed the
\* sealed value never changes, a freeze call that starts on a sealed Freezer
\* panics at its assertion, every freeze call that reaches the publication
\* step is the one that seals, and the sealed value is the result of the
\* first build.
C1_FreezeOnce ==
    [][ /\ (is_freezed => immutable' = immutable)
        /\ (is_freezed /\ last'.op = "freeze.assert" => last'.ret.tag = "panic")
        /\ (last'.op = "freeze.set" => ~is_freezed /\ is_freezed')
        /\ (is_freezed' => immutable'.val = firstBuilt'.val.reg) ]_vars

\* a freeze call made after the Freezer was sealed has panicked
C1_Witness ==
    /\ is_freezed
    /\ last.op = "freeze.assert"
    /\ last.ret.tag = "panic"

\* ---------------------------------------------------------------- C2
SeedOwners ==
    (IF IsSome(mutable) THEN 1 ELSE 0)
        + Cardinality({t \in Threads : IsSome(seed[t])})

InBuild == {t \in Threads : pc[t] = "freeze_build"}
PastTake == {t \in Threads : pc[t] \in {"freeze_build", "freeze_set", "freeze_unlock"}}

\* C2: under every interleaving of concurrent freeze calls at most one
\* caller ever takes the seed (takes = builds running + builds done), that
\* caller holds the mutex until it returns, the seed has at most one owner,
\* build runs once, a caller that finds the slot empty panics, and the sealed
\* value is the winner's build result.
C2_OneWinner ==
    /\ SeedOwners <= 1
    /\ Cardinality(InBuild) + buildCount <= 1
    /\ Cardinality(PastTake) <= 1
    /\ \A t \in PastTake : lock = t
    /\ (last.op = "freeze.set" => last.ret.tag = "Ok")
    /\ (last.op = "freeze.take" /\ last.ret.tag = "panic" => IsNone(mutable))
    /\ (is_freezed => /\ buildCount = 1
                      /\ IsNone(mutable)
                      /\ immutable.val = firstBuilt.val.reg)

\* a caller that passed the assertion concurrently with the winner found the
\* seed taken and panicked
C2_Witness ==
    /\ last.op = "freeze.take"
    /\ last.ret.tag = "panic"
    /\ is_freezed
    /\ buildCount = 1

\* ---------------------------------------------------------------- C3
\* C3: a deref of a Freezer that is not sealed panics; it never hands a
\* value to the caller.
C3_PreSealDerefPanics ==
    (last.op = "deref" /\ ~last.arg.val) => last.ret.tag = "panic"

\* ---------------------------------------------------------------- C4
\* C4: sealed is terminal. From a state where is_freezed() is true it stays
\* true, the sealed value stays the same, every is_freezed call returns true
\* and every deref returns the sealed value.
C4_SealedTerminal ==
    [][ is_freezed =>
          /\ is_freezed'
          /\ immutable' = immutable
          /\ (last'.op = "is_freezed" => last'.ret.val)
          /\ (last'.op = "deref" =>
                /\ last'.ret.tag = "ref"
                /\ last'.ret.val = immutable.val) ]_vars

\* a reader dereferenced the sealed Freezer after a later freeze attempt
C4_Witness ==
    /\ is_freezed
    /\ last.op = "deref"
    /\ last.ret.tag = "ref"
    /\ IsNone(mutable)

\* ---------------------------------------------------------------- C5
\* C5: a new Freezer is open and its slot holds the seed; a freeze that took
\* the seed left the slot empty, and the sealed value is build(seed, opts)
\* for the seed and opts of the call that took it.
C5_FreezeConsumesSeed ==
    /\ (last.op = "new" => ~is_freezed /\ mutable = Some(Builder_new))
    /\ (IsSome(taken) => IsNone(mutable))
    /\ (is_freezed =>
          /\ IsSome(taken) /\ IsSome(buildArgs)
          /\ buildArgs.val[1] = taken.val
          /\ immutable.val = Builder_build(taken.val, buildArgs.val[2]).reg
          /\ tags.val = Builder_build(taken.val, buildArgs.val[2]).tags)

\* a Builder holding entries was frozen
C5_Witness ==
    /\ is_freezed
    /\ IsSome(taken)
    /\ Len(taken.val.entries) >= 1
    /\ last.op = "freeze.return"

\* ---------------------------------------------------------------- C6
\* C6: register with an id already present returns Err and leaves the
\* Builder as it was.
C6_DuplicateRejected ==
    [][ (last'.op = "register" /\ IsSome(mutable)
            /\ (\E i \in 1..Len(mutable.val.entries) :
                    mutable.val.entries[i][2] = last'.arg[2]))
        => (last'.ret.tag = "Err" /\ mutable' = mutable) ]_vars

\* a register call was rejected as a duplicate
C6_Witness ==
    /\ last.op = "register"
    /\ last.ret.tag = "Err"
    /\ IsSome(mutable)
    /\ Len(mutable.val.entries) >= 1

\* ---------------------------------------------------------------- C7
NoDuplicateIds(entries) ==
    \A i, j \in 1..Len(entries) : entries[i][2] = entries[j][2] => i = j

\* C7: in every Builder, in the slot or taken out of it, no two entries
\* share an Identifier.
C7_UniqueIds ==
    /\ (IsSome(mutable) => NoDuplicateIds(mutable.val.entries))
    /\ \A t \in Threads : IsSome(seed[t]) => NoDuplicateIds(seed[t].val.entries)

\* a Builder is full of distinct ids after a rejected and accepted registers
C7_Witness ==
    /\ IsSome(mutable)
    /\ Len(mutable.val.entries) = NumIdent
    /\ last.op = "register"
    /\ last.ret.tag = "Err"

\* ---------------------------------------------------------------- C8
\* C8: a register that returns Ok(k) appended exactly the pair (value, id)
\* at the end, k is the number of entries before the call, and the earlier
\* entries are unchanged; the k-th Ok returns k - 1.
C8_RegisterAppends ==
    [][ (last'.op = "register" /\ last'.ret.tag = "Ok") =>
          LET old == mutable.val.entries
              new == mutable'.val.entries
          IN /\ Len(new) = Len(old) + 1
             /\ SubSeq(new, 1, Len(old)) = old
             /\ new[Len(new)][1].name = last'.arg[1]
             /\ new[Len(new)][2] = last'.arg[2]
             /\ last'.ret.val = Len(old)
             /\ last'.ret.val = Len(okLog) ]_vars

\* a second register succeeded and returned position 1
C8_Witness ==
    /\ last.op = "register"
    /\ last.ret.tag = "Ok"
    /\ last.ret.val = 1
    /\ IsSome(mutable)
    /\ Len(mutable.val.entries) = 2

\* ---------------------------------------------------------------- C9
AcceptsInOrder ==
    IF buildCount = 0
    THEN acceptLog = << >>
    ELSE /\ Len(acceptLog) = Len(okLog)
         /\ \A i \in 1..Len(acceptLog) : acceptLog[i] = <<okLog[i].name, i - 1>>

RawIdsAsRegistered ==
    is_freezed =>
        /\ Len(immutable.val.entries) = Len(okLog)
        /\ \A k \in 1..Len(okLog) :
              LET h == Registry_get_from_raw(immutable.val, okLog[k].raw)
              IN /\ okLog[k].raw = k - 1
                 /\ IsSome(h)
                 /\ h.val.value.name = okLog[k].name
                 /\ h.val.value.raw_id = okLog[k].raw
                 /\ h.val.key[2] = okLog[k].id

\* C9: register never calls accept; build calls accept once per value, with
\* i for the value registered i-th, in ascending order; after freeze
\* get_from_raw(i) is the Holder of the value whose register returned i.
C9_AcceptAtFreeze ==
    [][ /\ (last'.op = "register" => acceptLog' = acceptLog)
        /\ AcceptsInOrder'
        /\ RawIdsAsRegistered' ]_vars

\* a Builder with two entries was frozen
C9_Witness ==
    /\ is_freezed
    /\ Len(immutable.val.entries) >= 2
    /\ Len(acceptLog) >= 2

\* ---------------------------------------------------------------- C10
\* C10: in a frozen Registry, for every raw id i, the Identifier entry i was
\* registered under resolves through get_from_id to (i, Holder i), and
\* contains_id of it is true.
C10_IdMapBijection ==
    is_freezed =>
        \A k \in 1..Len(okLog) :
            /\ Registry_contains_id(immutable.val, okLog[k].id)
            /\ Registry_get_from_id(immutable.val, okLog[k].id)
                 = Some(<<k - 1, immutable.val.entries[k]>>)

\* ---------------------------------------------------------------- C11
\* C11: in a frozen Registry, get_from_key with the key of Holder i returns
\* (i, Holder i), distinct entries have distinct keys, and key_map maps
\* exactly the entries' keys onto the raw ids 0..n-1.
C11_KeyMapBijection ==
    is_freezed =>
        LET r == immutable.val
            n == Len(r.entries)
        IN /\ \A k \in 1..n :
                /\ Registry_contains_ket(r, r.entries[k].key)
                /\ Registry_get_from_key(r, r.entries[k].key)
                     = Some(<<k - 1, r.entries[k]>>)
           /\ \A j, k \in 1..n : r.entries[j].key = r.entries[k].key => j = k
           /\ DOMAIN r.key_map = {r.entries[k].key : k \in 1..n}
           /\ {r.key_map[x] : x \in DOMAIN r.key_map} = 0..(n - 1)

\* a Registry with two entries was frozen and its second key resolves
C11_Witness ==
    /\ is_freezed
    /\ Len(immutable.val.entries) >= 2
    /\ Registry_get_from_key(immutable.val, immutable.val.entries[2].key).val[1] = 1

\* ---------------------------------------------------------------- C12
\* C12: in a frozen Registry, for every Identifier id and the key
\* k = RegistryKey::new(registry key, id), contains_id(id) equals
\* contains_ket(k), and when present both lookups return the same entry.
C12_MapsAgree ==
    is_freezed =>
        \A id \in Identifier :
            LET r == immutable.val
                k == RegistryKey_new(r.key, id)
            IN /\ Registry_contains_id(r, id) = Registry_contains_ket(r, k)
               /\ (Registry_contains_id(r, id) /\ Registry_contains_ket(r, k)
                     => Registry_get_from_id(r, id) = Registry_get_from_key(r, k))

\* ---------------------------------------------------------------- C13
RegisteredIds == {okLog[k].id : k \in 1..Len(okLog)}

\* C13: freezing with a default Identifier that was never registered yields
\* a Registry with is_defaulted() false.
C13_UnregisteredDefaultAbsent ==
    (is_freezed /\ IsSome(buildArgs.val[2][2])
        /\ buildArgs.val[2][2].val \notin RegisteredIds)
    => ~Registry_is_defaulted(immutable.val)

\* ---------------------------------------------------------------- C14
\* C14: freezing with a default Identifier that was registered yields a
\* defaulted Registry whose default_entry() is the raw id and the Holder of
\* the entry registered under that Identifier.
C14_RegisteredDefaultResolves ==
    is_freezed =>
        \A k \in 1..Len(okLog) :
            buildArgs.val[2][2] = Some(okLog[k].id) =>
                /\ Registry_is_defaulted(immutable.val)
                /\ Registry_default_entry(immutable.val)
                     = [tag |-> "entry", val |-> <<k - 1, immutable.val.entries[k]>>]

\* ---------------------------------------------------------------- C15
\* C15: default_entry() on a Registry with no default panics; it returns
\* neither entry 0 nor any other entry.
C15_NoDefaultPanics ==
    (last.op = "default_entry" /\ ~last.arg.val) => last.ret.tag = "panic"

\* default_entry was called on a Registry that has entries but no default
C15_Witness ==
    /\ last.op = "default_entry"
    /\ last.ret.tag = "panic"
    /\ is_freezed
    /\ ~Registry_is_defaulted(immutable.val)
    /\ Len(immutable.val.entries) >= 1

\* ---------------------------------------------------------------- C16
\* C16: in a frozen Registry contains_id / get_from_id answer only for
\* registered Identifiers and contains_ket / get_from_key only for keys of
\* registered entries; every other Identifier or key gives false / None.
C16_OnlyRegisteredResolve ==
    is_freezed =>
        LET r == immutable.val
        IN /\ \A id \in Identifier \ RegisteredIds :
                /\ ~Registry_contains_id(r, id)
                /\ Registry_get_from_id(r, id) = None
           /\ \A a \in {root_key} \cup Identifier, b \in Identifier :
                (\A k \in 1..Len(r.entries) : r.entries[k].key # <<a, b>>) =>
                    /\ ~Registry_contains_ket(r, <<a, b>>)
                    /\ Registry_get_from_key(r, <<a, b>>) = None

\* ---------------------------------------------------------------- C17
\* C17: after freeze the Holder at raw id i has a key with value() equal to
\* the Identifier the entry was registered under, reg() equal to the
\* registry's own identifier, and is_of(registry key) true.
C17_HolderKeyDerived ==
    is_freezed =>
        \A k \in 1..Len(okLog) :
            LET r == immutable.val
                h == r.entries[k]
            IN /\ RegistryKey_value(h.key) = okLog[k].id
               /\ RegistryKey_reg(h.key) = r.key[2]
               /\ RegistryKey_is_of(h.key, r.key)

\* ---------------------------------------------------------------- C20
\* C20: key.cast(reg) is Some(key), equal by value to the original, exactly
\* when the key's stored registry identifier (inner.0) equals the identifier
\* embedded in reg (inner.1), and None otherwise; a key made by
\* RegistryKey::new(r, v) is_of r, and is_of no registry key whose
\* identifier differs from r's.
C20_CastIffIsOf ==
    /\ (call.fn = "cast" =>
          IF call.args.key[1] = call.args.reg[2]
          THEN call.ret.tag = "Some" /\ call.ret.val = call.args.key
          ELSE call.ret.tag = "None")
    /\ (call.fn = "new.is_of" =>
          /\ call.ret.own
          /\ (call.args.reg2[2] # call.args.reg[2] => ~call.ret.other)
          /\ (call.args.reg2[2] = call.args.reg[2] => call.ret.other))

\* a cast against the key's own registry succeeded although the key's value
\* identifier differs from it
C20_Witness ==
    /\ call.fn = "cast"
    /\ call.ret.tag = "Some"
    /\ call.args.key[2] # call.args.reg[2]

\* ---------------------------------------------------------------- C18
\* C18: once the Registry is frozen no step, and in particular no update of
\* Registry.tags or of a Holder's tag list, changes the number of entries,
\* the value or key at any raw id, the registry key, id_map, key_map or the
\* default.
C18_FrozenPartStable ==
    [][ is_freezed =>
          /\ immutable' = immutable
          /\ (IsSome(immutable) /\ IsSome(immutable') =>
                LET r == immutable.val
                    q == immutable'.val
                IN /\ Len(q.entries) = Len(r.entries)
                   /\ \A i \in 0..(Len(r.entries) - 1) :
                         Registry_get_from_raw(q, i) = Registry_get_from_raw(r, i)
                   /\ q.id_map = r.id_map
                   /\ q.key_map = r.key_map
                   /\ q.default = r.default
                   /\ q.key = r.key) ]_vars

\* both kinds of tag cell were updated on a frozen Registry with entries
C18_Witness ==
    /\ is_freezed
    /\ Len(immutable.val.entries) >= 2
    /\ DOMAIN tags.val # {}
    /\ \E i \in 1..Len(holder_tags.val) : holder_tags.val[i] # << >>
    /\ last.op = "holder.tags.write"

\* ---------------------------------------------------------------- C19
\* C19: a reader of Registry.tags never sees a map with some but not all of
\* a writer's changes: what it reads is the map as it was when the write
\* lock was last free, that is the whole pre-update or post-update map.
C19_NoPartialTags ==
    last.op = "tags.read" => last.ret = tagsCommitted

\* a reader saw the whole result of an update that made two changes
C19_Witness ==
    /\ last.op = "tags.read"
    /\ DOMAIN last.ret.val = TagKeys
    /\ NumTags >= 2

\* ---------------------------------------------------------------- C21
\* C21: two keys built by separate RegistryKey::new calls are equal exactly
\* when their registry identifiers and their value identifiers are both
\* equal, and then they feed the same data to a hasher; a clone is equal to
\* its original and hashes alike. None of it depends on the allocation.
C21_KeyEqByValue ==
    call.fn = "new.eq" =>
        LET same == /\ call.args.reg[2] = call.args.reg2[2]
                    /\ call.args.value = call.args.value2
        IN /\ call.ret.a.ptr # call.ret.b.ptr
           /\ call.ret.eq = same
           /\ (call.ret.hash_a = call.ret.hash_b) = same
           /\ call.ret.clone_eq
           /\ call.ret.hash_c = call.ret.hash_a

\* two keys in different allocations compared equal
C21_Witness ==
    /\ call.fn = "new.eq"
    /\ call.ret.a.ptr # call.ret.b.ptr
    /\ call.ret.eq

\* ---------------------------------------------------------------- C22
\* the character sets [a-z0-9_.-] and [a-z0-9_.-/]
NamespaceChars ==
    (Char_a..Char_z) \cup (Char_0..Char_9)
        \cup {Char_underscore, Char_dot, Char_minus}
PathChars == NamespaceChars \cup {Char_slash}
OverChars(str, set) == \A i \in 1..Len(str) : str[i] \in set

\* C22: Identifier::new(namespace, path) returns an error whenever the
\* namespace has a character outside [a-z0-9_.-] or the path has a character
\* outside [a-z0-9_.-/].
C22_InvalidCharRejected ==
    (/\ call.fn = "id.new"
     /\ \/ ~OverChars(call.args.namespace, NamespaceChars)
        \/ ~OverChars(call.args.path, PathChars))
        => call.ret.tag = "Err"

C24_RoundTripValid ==
    (/\ call.fn = "id.roundtrip"
     /\ call.args.namespace # << >>
     /\ call.args.path # << >>
     /\ OverChars(call.args.namespace, NamespaceChars)
     /\ OverChars(call.args.path, PathChars))
        => /\ call.ret.made.tag = "Ok"
           /\ call.ret.parsed = call.ret.made
           /\ call.ret.parsed.val = [namespace |-> call.args.namespace,
                                     path |-> call.args.path]

\* a valid pair whose path has a '/' went through display and parse
C24_Witness ==
    /\ call.fn = "id.roundtrip"
    /\ call.args.namespace # << >>
    /\ OverChars(call.args.namespace, NamespaceChars)
    /\ OverChars(call.args.path, PathChars)
    /\ \E i \in 1..Len(call.args.path) : call.args.path[i] = Char_slash
    /\ call.ret.text = call.args.namespace \o <<Char_colon>> \o call.args.path
    /\ call.ret.parsed = call.ret.made

\* ---------------------------------------------------------------- C25
\* C25: every Identifier that new returns is recovered from its display
\* text: parsing namespace:path gives an equal Identifier.
C25_RoundTripAll ==
    (call.fn = "id.roundtrip" /\ call.ret.made.tag = "Ok")
        => /\ call.ret.text = call.ret.made.val.namespace \o <<Char_colon>>
                                  \o call.ret.made.val.path
           /\ call.ret.parsed = call.ret.made

\* ---------------------------------------------------------------- C26
\* position of the first ':' of a text, 0 when it has none
FirstColon(text) ==
    IF \E i \in 1..Len(text) : text[i] = Char_colon
    THEN CHOOSE i \in 1..Len(text) :
            /\ text[i] = Char_colon
            /\ \A k \in 1..(i - 1) : text[k] # Char_colon
    ELSE 0

\* C26: try_parse(text) is new(before, after) of the parts around the first
\* ':' of the text, and new("rimecraft", text) when the text has no ':';
\* whatever new returns, error included, is what try_parse returns, and
\* parse panics exactly on that error.
C26_ParseSplitsFirstColon ==
    call.fn = "id.parse" =>
        LET text == call.args.id
            p == FirstColon(text)
            ns == IF p = 0 THEN Str_rimecraft ELSE SubSeq(text, 1, p - 1)
            path == IF p = 0 THEN text ELSE SubSeq(text, p + 1, Len(text))
        IN /\ call.ret.try_parse = Identifier_new(ns, path)
           /\ (call.ret.try_parse.tag = "Ok" =>
                 /\ call.ret.try_parse.val.namespace = ns
                 /\ call.ret.try_parse.val.path = path
                 /\ call.ret.parse = [tag |-> "value",
                                      val |-> call.ret.try_parse.val])
           /\ (call.ret.try_parse.tag = "Err" => call.ret.parse = Panic)

\* a text with two ':' was split at the first one
C26_Witness ==
    /\ call.fn = "id.parse"
    /\ Cardinality({i \in 1..Len(call.args.id) :
                       call.args.id[i] = Char_colon}) = 2
    /\ call.ret.try_parse.tag = "Ok"
    /\ \E i \in 1..Len(call.ret.try_parse.val.path) :
          call.ret.try_parse.val.path[i] = Char_colon
    /\ OverChars(call.ret.try_parse.val.namespace, NamespaceChars)

\* ---------------------------------------------------------------- C29
\* C29: Identifier::new succeeds for every namespace over [a-z0-9_.-] and
\* path over [a-z0-9_.-/], and the Identifier it returns gives back both
\* inputs through namespace() and path(), character for character.
C29_ValidStoredUnchanged ==
    (/\ call.fn = "id.new"
     /\ OverChars(call.args.namespace, NamespaceChars)
     /\ OverChars(call.args.path, PathChars))
        => /\ call.ret.tag = "Ok"
           /\ Identifier_namespace(call.ret.val) = call.args.namespace
           /\ Identifier_path(call.ret.val) = call.args.path

\* new stored a valid namespace and a different valid path that has a '/'
C29_Witness ==
    /\ call.fn = "id.new"
    /\ call.args.namespace # << >>
    /\ OverChars(call.args.namespace, NamespaceChars)
    /\ OverChars(call.args.path, PathChars)
    /\ \E i \in 1..Len(call.args.path) : call.args.path[i] = Char_slash
    /\ call.ret.tag = "Ok"
    /\ Identifier_path(call.ret.val) = call.args.path
    /\ Identifier_namespace(call.ret.val) # Identifier_path(call.ret.val)

\* ---------------------------------------------------------------- C27
\* C27: in a frozen Registry with n entries the default, when there is one,
\* and every raw id stored in id_map and key_map is below n; so the entry
\* lookup inside default_entry (on a defaulted registry), get_from_id and
\* get_from_key never panics.
C27_StoredRawIdsInRange ==
    is_freezed =>
        LET r == immutable.val
            n == Len(r.entries)
        IN /\ \A id \in DOMAIN r.id_map : r.id_map[id] \in 0..(n - 1)
           /\ \A key \in DOMAIN r.key_map : r.key_map[key] \in 0..(n - 1)
           /\ (Registry_is_defaulted(r) =>
                 /\ r.default.val \in 0..(n - 1)
                 /\ Registry_default_entry(r).tag = "entry"
                 /\ Registry_default_entry(r).val[2] # Panic)
           /\ \A id \in IdentAll :
                 LET e == Registry_get_from_id(r, id)
                 IN IsSome(e) => e.val[2] # Panic
           /\ \A key \in KeyInputs :
                 LET e == Registry_get_from_key(r, key)
                 IN IsSome(e) => e.val[2] # Panic
           /\ (last.op = "default_entry" /\ last.arg.val =>
                 last.ret.tag = "entry" /\ last.ret.val[2] # Panic)

\* default_entry was called on a defaulted Registry with two entries and
\* returned its last entry
C27_Witness ==
    /\ is_freezed
    /\ Len(immutable.val.entries) >= 2
    /\ Registry_is_defaulted(immutable.val)
    /\ last.op = "default_entry"
    /\ last.ret.tag = "entry"
    /\ last.ret.val[1] = Len(immutable.val.entries) - 1

\* ---------------------------------------------------------------- C28
\* C28: a Registry frozen from a Builder with n entries has n Holders:
\* get_from_raw(i) is Some exactly for i < n, and iter() yields the n Holders
\* in ascending raw-id order, Holder i being the i-th registration; building
\* the same Builder with the same options again yields the same sequence.
C28_ExactlyNHolders ==
    is_freezed =>
        LET r == immutable.val
            b == buildArgs.val[1]
            n == Len(b.entries)
            it == Registry_iter(r)
        IN /\ Len(r.entries) = n
           /\ \A i \in 0..(MaxEntries + 1) :
                 IsSome(Registry_get_from_raw(r, i)) <=> i < n
           /\ Len(it) = n
           /\ \A k \in 1..n :
                 /\ Registry_get_from_raw(r, k - 1) = Some(it[k])
                 /\ it[k].value.raw_id = k - 1
                 /\ it[k].value.name = b.entries[k][1].name
                 /\ it[k].key[2] = b.entries[k][2]
           /\ Registry_iter(Builder_build(b, buildArgs.val[2]).reg) = it

\* a Builder with two entries was frozen: raw ids 0 and 1 are present and
\* 2 is not
C28_Witness ==
    /\ is_freezed
    /\ Len(buildArgs.val[1].entries) = 2
    /\ Len(Registry_iter(immutable.val)) = 2
    /\ IsSome(Registry_get_from_raw(immutable.val, 1))
    /\ IsNone(Registry_get_from_raw(immutable.val, 2))

\* ---------------------------------------------------------------- C30
ElemsOf(list) == {list[j] : j \in 1..Len(list)}

\* C30: is_in(tag) on the Holder at raw id i returns true exactly when tag
\* is in that Holder's own tag list at the time of the call, whatever the
\* Registry's tag-to-raw-id map holds; a step that only updates the
\* Registry's map changes no Holder's is_in result.
C30_IsInReadsOwnTags ==
    [][ /\ (last'.op = "holder.is_in" =>
              last'.ret.val =
                  (last'.arg[2] \in ElemsOf(holder_tags'.val[last'.arg[1] + 1])))
        /\ (IsSome(holder_tags) /\ last'.op \in {"tags.write", "tags.insert",
                                                   "tags.commit"} =>
              \A i \in 0..(Len(immutable.val.entries) - 1), g \in TagKeys :
                  Holder_is_in(i, g)' = Holder_is_in(i, g)) ]_vars

\* is_in answered true for a tag of the Holder's own list while the
\* Registry's map lists that raw id under another tag only
C30_Witness ==
    /\ last.op = "holder.is_in"
    /\ last.ret.val
    /\ IsSome(tags)
    /\ ~HashMap_contains_key(tags.val, last.arg[2])
    /\ \E g \in DOMAIN tags.val : tags.val[g] = <<last.arg[1]>>

\* ---------------------------------------------------------------- C31
AllUntagged ==
    \A i \in 0..(Len(immutable.val.entries) - 1), g \in TagKeys :
        ~Holder_is_in(i, g)

\* C31: at the step that seals the Registry every Holder's tag list and the
\* Registry's tags map are empty and is_in is false for every Holder and
\* tag; the lists stay empty, and is_in false, until a Holder's tag list is
\* written, and the map stays empty until a tag is inserted.
C31_TagsEmptyAfterFreeze ==
    [][ /\ (last'.op = "freeze.set" /\ last'.ret.tag = "Ok" =>
              /\ tags'.val = HashMap_new
              /\ \A i \in 1..Len(immutable'.val.entries) :
                    holder_tags'.val[i] = << >>
              /\ AllUntagged')
        /\ (is_freezed /\ AllUntagged /\ last'.op # "holder.tags.write" =>
              AllUntagged')
        /\ (is_freezed /\ tags.val = HashMap_new /\ last'.op # "tags.insert" =>
              tags'.val = HashMap_new) ]_vars

\* is_in was asked of a Holder of a freshly sealed Registry with two
\* entries, before any tag update, and answered false
C31_Witness ==
    /\ last.op = "holder.is_in"
    /\ ~last.ret.val
    /\ Len(immutable.val.entries) = 2
    /\ tags.val = HashMap_new
    /\ \A i \in 1..2 : holder_tags.val[i] = << >>

\* ---------------------------------------------------------------- C32
\* C32: a Freezer<T, T> frozen with () is sealed with the value its slot
\* held when freeze took it, unmodified: the value given to new when the
\* slot was never written, the last value written to the slot otherwise.
C32_IdentityFreeze ==
    /\ (IsSome(mutable) => mutable.val = slotLog[Len(slotLog)])
    /\ (IsSome(taken) => taken.val = slotLog[Len(slotLog)])
    /\ \A t \in Threads : IsSome(built[t]) => built[t] = taken
    /\ (is_freezed => immutable = taken)
    /\ (is_freezed /\ Len(slotLog) = 1 => immutable.val = slotLog[1])

\* the slot was written with another value than the one given to new, and
\* the Freezer is sealed with the written value
C32_Witness ==
    /\ is_freezed
    /\ Len(slotLog) = 2
    /\ slotLog[2] # slotLog[1]
    /\ immutable.val = slotLog[2]

\* ---------------------------------------------------------------- C33
\* C33: a register returns Ok only while the seed has not been taken, the
\* Builder that freeze takes holds exactly the registrations that returned
\* Ok, the i-th at position i, and the sealed Registry holds each of them at
\* the raw id its register returned.
C33_RegisterLinearized ==
    [][ /\ (last'.op = "register" /\ last'.ret.tag = "Ok" =>
              /\ IsNone(taken)
              /\ IsSome(mutable)
              /\ \A t \in Threads : IsNone(seed[t]))
        /\ (IsSome(taken) => okLog' = okLog)
        /\ (last'.op = "freeze.take" /\ last'.ret = Unit =>
              /\ Len(taken'.val.entries) = Len(okLog)
              /\ \A k \in 1..Len(okLog) :
                    /\ okLog[k].raw = k - 1
                    /\ taken'.val.entries[k][1].name = okLog[k].name
                    /\ taken'.val.entries[k][2] = okLog[k].id)
        /\ (is_freezed' =>
              /\ Len(immutable'.val.entries) = Len(okLog')
              /\ \A k \in 1..Len(okLog') :
                    LET h == immutable'.val.entries[okLog'[k].raw + 1]
                    IN /\ h.value.name = okLog'[k].name
                       /\ h.key[2] = okLog'[k].id) ]_vars

\* two registrations were sealed, and a register tried after the take was
\* turned away
C33_Witness ==
    /\ is_freezed
    /\ Len(okLog) = 2
    /\ Len(immutable.val.entries) = 2
    /\ last.op = "register"
    /\ last.ret.tag = "NoBuilder"

\* ---------------------------------------------------------------- C34
\* C34: from the take of the seed to the publication of the built value the
\* freezing thread holds the mutable lock; so whenever the lock is free and
\* the slot is empty the Freezer is sealed, and a thread that locks the slot
\* and finds it empty (a register, or the take of a second freeze) does so
\* in a state where is_freezed() is true.
C34_EmptySlotMeansSealed ==
    /\ \A t \in Threads :
          pc[t] \in {"freeze_build", "freeze_set", "freeze_unlock"} => lock = t
    /\ (lock = NoThread /\ IsNone(mutable) => is_freezed)
    /\ (last.op = "register" /\ last.ret.tag = "NoBuilder" => is_freezed)
    /\ (last.op = "freeze.take" /\ last.ret = Panic => is_freezed)

\* a second freeze got the lock after the first one returned, found the slot
\* empty and panicked
C34_Witness ==
    /\ last.op = "freeze.take"
    /\ last.ret = Panic
    /\ IsNone(mutable)
    /\ lock = NoThread
    /\ is_freezed

\* ---------------------------------------------------------------- C35
\* C35: once the build step of a freeze has panicked the seed is gone for
\* good: the slot is empty, the cell is never set, is_freezed() answers
\* false in every later state, the lock is free again, and every later
\* freeze passes its assertion and panics on the empty slot.
C35_BuildPanicUnsealed ==
    panicked =>
        /\ IsNone(mutable)
        /\ IsNone(immutable)
        /\ ~is_freezed
        /\ lock = NoThread
        /\ \A t \in Threads : pc[t] \in {"idle", "freeze_take"}
        /\ (last.op = "is_freezed" => ~last.ret.val)
        /\ (last.op = "freeze.assert" => last.ret = Unit)
        /\ (last.op = "freeze.take" => last.ret = Panic)
        /\ last.op \notin {"freeze.set", "freeze.return"}

\* after a build that panicked part-way, another freeze passed its
\* assertion and panicked on the empty slot
C35_Witness ==
    /\ panicked
    /\ Len(taken.val.entries) >= 2
    /\ Len(acceptLog) = 1
    /\ last.op = "freeze.take"
    /\ last.ret = Panic
    /\ ~is_freezed

\* ---------------------------------------------------------------- C36
\* C36: for every raw id i in range, get_raw_id of the Holder reference
\* that get_from_raw(i) returns is Some(i); for a Holder that is not an
\* element of this Registry's entries, equal in contents or not, it is None.
C36_HolderIdentityRoundTrip ==
    call.fn = "holder.get_raw_id" =>
        /\ IsSome(call.ret.own) = (call.args.index < Len(call.args.reg.entries))
        /\ (IsSome(call.ret.own) =>
              /\ call.ret.id = Some(call.args.index)
              /\ call.ret.foreign = None)

\* the second Holder of a Registry was recovered by identity, and a Holder
\* with the same contents outside the Registry was not found
C36_Witness ==
    /\ call.fn = "holder.get_raw_id"
    /\ call.args.index = 1
    /\ call.ret.id = Some(1)
    /\ call.ret.foreign = None

\* ---------------------------------------------------------------- C37
\* C37: get_raw_id(value) is the smallest raw id whose stored value equals
\* value, and None when no stored value equals it; get of a returned id is a
\* value equal to the one asked for; and when the stored values are pairwise
\* different, get_raw_id(registry[i]) is i for every i in range.
C37_FirstEqualValue ==
    call.fn = "get_raw_id" =>
        LET r == call.args.reg
            n == Len(r.entries)
            eq(a, b) == Value_eq(call.args.kind, a, b)
            equal == {i \in 0..(n - 1) : eq(r.entries[i + 1].value, call.args.value)}
            distinct == \A i, j \in 1..n :
                           eq(r.entries[i].value, r.entries[j].value) => i = j
        IN /\ call.ret.len = n
           /\ (equal = {} => call.ret.id = None)
           /\ (equal # {} =>
                 /\ IsSome(call.ret.id)
                 /\ call.ret.id.val \in equal
                 /\ \A i \in equal : call.ret.id.val <= i
                 /\ IsSome(call.ret.back)
                 /\ eq(call.ret.back.val, call.args.value))
           /\ (call.args.index < n =>
                 /\ call.ret.at = [tag |-> "value",
                                   val |-> r.entries[call.args.index + 1].value]
                 /\ IsSome(call.ret.id_at)
                 /\ call.ret.id_at.val <= call.args.index
                 /\ (distinct => call.ret.id_at = Some(call.args.index)))

\* two stored values equal the value asked for and the smaller raw id was
\* returned
C37_Witness ==
    /\ call.fn = "get_raw_id"
    /\ Len(call.args.reg.entries) = 2
    /\ \A k \in 1..2 : Value_eq(call.args.kind, call.args.reg.entries[k].value,
                                 call.args.value)
    /\ call.ret.id = Some(0)

====
